---- MODULE Spec2Model ----
(***************************************************************************)
(* Chromix Three.                                                          *)
(*                                                                         *)
(* The relay (src/src/server/chromix-three-server.js): the HTTP endpoint,  *)
(* the single executor-connection slot, the single pending-request slot    *)
(* and the per-request deadline timers.                                    *)
(*                                                                         *)
(* The executor (src/src/extension/service-worker.js): the WebSocket       *)
(* client with its reconnection, and the tab commands. It is specified on  *)
(* its own (ExtSpec), receiving the requests a relay may forward.          *)
(*                                                                         *)
(* One step of the model is one task of the Node event loop: an HTTP       *)
(* request handled up to its first suspension, a WebSocket event handler,  *)
(* or a timer callback, together with the promise continuations            *)
(* (microtasks) it releases.                                               *)
(***************************************************************************)
EXTENDS Integers, Sequences, FiniteSets, TLC

\* ------------------------------------------------------------------ bounds
\* Number of POST /api/command calls that reach generateRequestId.
MaxRequests == 2
\* Number of executor sockets the WebSocket server accepts in a run.
MaxSockets == 2

\* --------------------------------------------------------------- constants
\* ws readyState OPEN, the value sendToExtension and isConnected compare to.
OPEN == 1
\* extensionSocket = null
NoSocket == 0

Requests == 1..MaxRequests
Sockets == 1..MaxSockets

\* Values Date.now() contributes to an id. The clock is not under the
\* relay's control; the model takes the case in which every call sees the
\* same value, so that only the counter can tell two ids apart.
Timestamps == {1700}

\* Commands a caller may put in the body. The relay forwards the command
\* without looking at it beyond the `!request.command` test.
Commands == {"reload"}

VARIABLES
  requestIdCounter,   \* let requestIdCounter
  extensionSocket,    \* let extensionSocket (NoSocket = null)
  pendingRequest,     \* let pendingRequest (NoPending = null)
  readyState,         \* readyState of every socket the server may accept
  timer,              \* the setTimeout handle created for each request
  request,            \* the request object of each POST that was given an id
  reply,              \* the HTTP reply written for each such POST
  wire,               \* per socket, the messages written with socket.send
  lastEvent           \* the event-loop task that produced this state

\* The executor (src/src/extension/service-worker.js)
VARIABLES
  socket,             \* let socket (NoSocket = null)
  connectionState,    \* let connectionState
  wsReadyState,       \* readyState of every WebSocket the extension creates
  reconnectTimers,    \* pending setTimeout(connect, RECONNECT_DELAY) calls
  tabs,               \* the browser's tabs, in the order of chrome.tabs.query
  command,            \* the requests received, with what was done for each
  outbox,             \* the responses written with socket.send, in order
  match               \* one call of urlMatches: its arguments and result

extVars == <<socket, connectionState, wsReadyState, reconnectTimers, tabs,
             command, outbox, match>>

vars == <<requestIdCounter, extensionSocket, pendingRequest, readyState,
          timer, request, reply, wire, lastEvent, extVars>>

relayVars == <<requestIdCounter, extensionSocket, pendingRequest, readyState,
               timer, request, reply, wire>>

\* ------------------------------------------------------------------ values
\* pendingRequest = null
NoPending == [id |-> <<0, 0>>, owner |-> 0]
\* no request object yet
NoRequest == [id |-> <<0, 0>>, command |-> ""]
\* the HTTP response has not been written yet
NoReply == [status |-> 0]
\* an id no request of this process was given
BogusId == <<0, 0>>

\* generateRequestId without the counter in the id.
generateRequestIdTimestampOnly(now, counter) == <<now, 0>>

\* generateRequestId: `req-${Date.now()}-${++requestIdCounter}`; the two
\* numbers are kept apart by the '-' so the string determines the pair.
generateRequestId(now, counter) == <<now, counter + 1>>

\* isConnected() without the readyState test.
isConnectedIgnoringReadyState == extensionSocket # NoSocket

\* isConnected()
isConnected ==
  extensionSocket # NoSocket /\ readyState[extensionSocket] = OPEN

\* ---------------------------------------------------------------- promises
\* The promise of request n is unsettled as long as handleRequest has not
\* written its reply: the continuation of `await sendToExtension` runs in
\* the same task as resolve/reject.
Unsettled(n) == request[n] # NoRequest /\ reply[n] = NoReply

\* handleRequest after `await` returns: 200 with the response as body.
\* resolve on a settled promise is a no-op.
Resolve(rep, n, response) ==
  [rep EXCEPT ![n] = IF @ = NoReply
                     THEN [status |-> 200, body |-> response]
                     ELSE @]

\* handleRequest's catch: 500 {success: false, error: error.message}.
\* reject on a settled promise is a no-op.
Reject(rep, n, message) ==
  [rep EXCEPT ![n] = IF @ = NoReply
                     THEN [status |-> 500,
                           body |-> [success |-> FALSE, error |-> message]]
                     ELSE @]

\* clearTimeout(handle): an armed timer is cancelled, any other is left.
ClearTimeout(t) == IF t = "armed" THEN "cancelled" ELSE t

\* ------------------------------------------------------------------ frames
\* (success, data) pairs of a response object; data is absent or a string,
\* which may be empty.
ResponseShapes ==
  { <<TRUE, [ty |-> "string", s |-> "boom"]>>,
    <<FALSE, [ty |-> "string", s |-> "boom"]>>,
    <<FALSE, [ty |-> "string", s |-> ""]>>,
    <<FALSE, [ty |-> "undefined", s |-> ""]>> }

\* Ids the executor has seen: those of the messages written to a socket.
SentIds ==
  UNION { { wire[s][i].id : i \in DOMAIN wire[s] } : s \in Sockets }

\* Response objects: any shape with an id the executor was sent (current,
\* stale or already answered), or with an id the relay never sent.
ResponseFrames ==
  { [kind |-> "response", id |-> i, success |-> sh[1], data |-> sh[2]] :
      i \in SentIds, sh \in ResponseShapes }
  \cup { [kind |-> "response", id |-> BogusId, success |-> TRUE,
          data |-> [ty |-> "string", s |-> "boom"]] }

\* What the executor may put on the channel: a response object, text that
\* JSON.parse rejects, or the JSON text `null`.
Frames ==
  ResponseFrames \cup
  { [kind |-> "garbage", id |-> BogusId, success |-> FALSE,
     data |-> [ty |-> "undefined", s |-> ""]],
    [kind |-> "null", id |-> BogusId, success |-> FALSE,
     data |-> [ty |-> "undefined", s |-> ""]] }

\* JSON.parse(data.toString()) returns and response.id can be read.
Parses(frame) == frame.kind = "response"

\* new Error(response.data || 'Unknown error').message
ErrorMessage(data) ==
  IF data.ty = "undefined" \/ data.s = ""
  THEN "Unknown error"
  ELSE data.s

\* The test of the slot without the comparison of the ids.
ResponseMatchesAnyPending(frame) == pendingRequest # NoPending

\* pendingRequest && pendingRequest.id === response.id
ResponseMatches(frame) ==
  pendingRequest # NoPending /\ pendingRequest.id = frame.id

\* ------------------------------------------------- executor: values
\* Number of WebSocket objects the extension creates in a run.
MaxExtSockets == 3
\* Number of messages the extension receives in a run.
MaxCommands == 2

ExtSockets == 1..MaxExtSockets
CommandSlots == 1..MaxCommands

\* WebSocket.CONNECTING, WebSocket.CLOSING, WebSocket.CLOSED; NotCreated
\* stands for a WebSocket that `new WebSocket` has not made yet.
CONNECTING == 0
CLOSING == 2
CLOSED == 3
NotCreated == 4

\* Text is a sequence of characters. The urls of the tabs open at start.
InitialTabs ==
  << [id |-> 1, url |-> <<"a", ".", "b">>],
     [id |-> 2, url |-> <<"a", "x", "b">>],
     [id |-> 3, url |-> <<"c">>] >>

\* no request in this place yet
NoCommand ==
  [id |-> BogusId, command |-> "", url |-> <<>>, scope |-> "undefined",
   phase |-> "none", reloaded |-> <<>>, removed |-> <<>>, created |-> <<>>]

\* The service worker script has run: connect() was called once and the
\* listeners are registered.
ExtInit ==
  /\ socket = 1
  /\ connectionState = "connecting"
  /\ wsReadyState = [s \in ExtSockets |-> IF s = 1 THEN CONNECTING ELSE NotCreated]
  /\ reconnectTimers = 0
  /\ tabs = InitialTabs
  /\ command = [c \in CommandSlots |-> NoCommand]
  /\ outbox = <<>>

\* -------------------------------------------------------------------- Init
\* no call of urlMatches on its own
NoMatch == [url |-> <<>>, pattern |-> <<>>, done |-> FALSE, result |-> FALSE]

\* The relay after startServer and the extension after its script has run.
StartState ==
  /\ ExtInit
  /\ requestIdCounter = 0
  /\ extensionSocket = NoSocket
  /\ pendingRequest = NoPending
  /\ readyState = [s \in Sockets |-> 0]
  /\ timer = [n \in Requests |-> "unset"]
  /\ request = [n \in Requests |-> NoRequest]
  /\ reply = [n \in Requests |-> NoReply]
  /\ wire = [s \in Sockets |-> <<>>]
  /\ lastEvent = [op |-> "start"]

Init ==
  /\ StartState
  /\ match = NoMatch

\* ----------------------------------------------------------------- actions
\* Each action below is the effect of one handler on the relay's variables;
\* Next adds the record of which handler ran (lastEvent).

\* wss.on('connection'): the next socket completes its handshake.
Connection(s) ==
  /\ readyState[s] = 0
  /\ \A r \in Sockets : r < s => readyState[r] # 0
  /\ readyState' = [readyState EXCEPT ![s] = OPEN]
  /\ extensionSocket' = s
  /\ UNCHANGED <<requestIdCounter, pendingRequest, timer, request, reply, wire>>

\* The closing handshake or a transport failure starts on an open socket:
\* ws moves readyState to CLOSING; the 'close' event comes in a later task.
BeginClose(s) ==
  /\ readyState[s] = OPEN
  /\ readyState' = [readyState EXCEPT ![s] = 2]
  /\ UNCHANGED <<requestIdCounter, extensionSocket, pendingRequest, timer,
                 request, reply, wire>>

\* The 'close' handler without the rejection of the pending request.
CloseHandlerKeepsPending ==
  /\ extensionSocket' = NoSocket
  /\ UNCHANGED <<reply, pendingRequest>>

\* What the 'close' handler does to the two slots.
CloseHandler ==
  /\ extensionSocket' = NoSocket
  /\ IF pendingRequest # NoPending
     THEN /\ reply' = Reject(reply, pendingRequest.owner, "Extension disconnected")
          /\ pendingRequest' = NoPending
     ELSE UNCHANGED <<reply, pendingRequest>>

\* socket.on('close') of socket s.
SocketClose(s) ==
  /\ readyState[s] \in {OPEN, 2}
  /\ readyState' = [readyState EXCEPT ![s] = 3]
  /\ CloseHandler
  /\ UNCHANGED <<requestIdCounter, timer, request, wire>>

\* socket.on('error'): the handler only logs. ws has already moved the
\* socket out of OPEN when it reports a transport error.
SocketError(s) ==
  /\ readyState[s] = OPEN
  /\ readyState' = [readyState EXCEPT ![s] = 2]
  /\ UNCHANGED <<requestIdCounter, extensionSocket, pendingRequest, timer,
                 request, reply, wire>>

\* handleExtensionResponse with a catch block that gives up the pending
\* request.
handleExtensionResponseCatchClears(frame) ==
  IF ~Parses(frame)
  THEN /\ pendingRequest' = NoPending
       /\ UNCHANGED <<timer, reply>>
  ELSE IF ResponseMatches(frame)
       THEN /\ timer' = [timer EXCEPT ![pendingRequest.owner] = ClearTimeout(@)]
            /\ reply' = IF frame.success
                        THEN Resolve(reply, pendingRequest.owner,
                                     [id |-> frame.id, success |-> frame.success,
                                      data |-> frame.data])
                        ELSE Reject(reply, pendingRequest.owner,
                                    ErrorMessage(frame.data))
            /\ pendingRequest' = NoPending
       ELSE UNCHANGED <<timer, reply, pendingRequest>>

\* handleExtensionResponse with `pendingRequest = null` after the if
\* instead of inside it.
handleExtensionResponseAlwaysClears(frame) ==
  /\ pendingRequest' = NoPending
  /\ IF Parses(frame) /\ ResponseMatches(frame)
     THEN /\ timer' = [timer EXCEPT ![pendingRequest.owner] = ClearTimeout(@)]
          /\ reply' = IF frame.success
                      THEN Resolve(reply, pendingRequest.owner,
                                   [id |-> frame.id, success |-> frame.success,
                                    data |-> frame.data])
                      ELSE Reject(reply, pendingRequest.owner,
                                  ErrorMessage(frame.data))
     ELSE UNCHANGED <<timer, reply>>

\* handleExtensionResponse without the clearTimeout.
handleExtensionResponseKeepsTimer(frame) ==
  IF Parses(frame) /\ ResponseMatches(frame)
  THEN /\ UNCHANGED timer
       /\ reply' = IF frame.success
                   THEN Resolve(reply, pendingRequest.owner,
                                [id |-> frame.id, success |-> frame.success,
                                 data |-> frame.data])
                   ELSE Reject(reply, pendingRequest.owner,
                               ErrorMessage(frame.data))
       /\ pendingRequest' = NoPending
  ELSE UNCHANGED <<timer, reply, pendingRequest>>

\* handleExtensionResponse(data)
handleExtensionResponse(frame) ==
  IF Parses(frame) /\ ResponseMatches(frame)
  THEN /\ timer' = [timer EXCEPT ![pendingRequest.owner] = ClearTimeout(@)]
       /\ reply' = IF frame.success
                   THEN Resolve(reply, pendingRequest.owner,
                                [id |-> frame.id, success |-> frame.success,
                                 data |-> frame.data])
                   ELSE Reject(reply, pendingRequest.owner,
                               ErrorMessage(frame.data))
       /\ pendingRequest' = NoPending
  ELSE UNCHANGED <<timer, reply, pendingRequest>>

\* socket.on('message') of any socket whose handshake completed.
Message(frame) ==
  /\ \E s \in Sockets : readyState[s] = OPEN
  /\ handleExtensionResponse(frame)
  /\ UNCHANGED <<requestIdCounter, extensionSocket, readyState, request, wire>>

\* All timers have the same delay, so they expire in the order in which
\* they were armed.
TimerDue(n) ==
  /\ timer[n] = "armed"
  /\ \A m \in Requests : m < n => timer[m] # "armed"

\* The timer callback without its reject.
TimeoutCallbackNoReject(n) ==
  /\ pendingRequest' = NoPending
  /\ UNCHANGED reply

\* The callback given to setTimeout for request n.
TimeoutCallback(n) ==
  /\ pendingRequest' = NoPending
  /\ reply' = Reject(reply, n, "Request timeout")

Timeout(n) ==
  /\ TimerDue(n)
  /\ timer' = [timer EXCEPT ![n] = "fired"]
  /\ TimeoutCallback(n)
  /\ UNCHANGED <<requestIdCounter, extensionSocket, readyState, request, wire>>

\* ------------------------------------------------------------ HTTP bodies
\* Ids a caller may put in the body itself.
CallerIds == {BogusId, <<1700, 1>>}

\* Bodies of POST /api/command: text JSON.parse rejects, the JSON text
\* `null`, and objects whose command is absent/empty ("") or present.
Bodies ==
  { [kind |-> "text", command |-> "", id |-> BogusId],
    [kind |-> "null", command |-> "", id |-> BogusId],
    [kind |-> "object", command |-> "", id |-> BogusId] } \cup
  { [kind |-> "object", command |-> c, id |-> i] :
      c \in Commands, i \in CallerIds }

\* The validation without the `!request.command` test.
ValidCommandAnyObject(body) == body.kind = "object"

\* The body passes JSON.parse and the `!request.command` test.
ValidCommand(body) == body.kind = "object" /\ body.command # ""

\* sendToExtension with the message written twice.
sendToExtensionSendsTwice(n, req, throws) ==
  IF ~isConnected
  THEN /\ reply' = Reject(reply, n, "Extension not connected")
       /\ UNCHANGED <<pendingRequest, timer, wire>>
  ELSE IF throws
       THEN /\ timer' = [timer EXCEPT ![n] = ClearTimeout("armed")]
            /\ pendingRequest' = NoPending
            /\ reply' = Reject(reply, n, "send failed")
            /\ UNCHANGED wire
       ELSE /\ timer' = [timer EXCEPT ![n] = "armed"]
            /\ pendingRequest' = [id |-> req.id, owner |-> n]
            /\ wire' = [wire EXCEPT ![extensionSocket] = Append(Append(@, req), req)]
            /\ UNCHANGED reply

\* sendToExtension that leaves a request already in the slot where it is.
sendToExtensionKeepsPending(n, req, throws) ==
  IF ~isConnected
  THEN /\ reply' = Reject(reply, n, "Extension not connected")
       /\ UNCHANGED <<pendingRequest, timer, wire>>
  ELSE IF throws
       THEN /\ timer' = [timer EXCEPT ![n] = ClearTimeout("armed")]
            /\ pendingRequest' = NoPending
            /\ reply' = Reject(reply, n, "send failed")
            /\ UNCHANGED wire
       ELSE /\ timer' = [timer EXCEPT ![n] = "armed"]
            /\ pendingRequest' = IF pendingRequest = NoPending
                                 THEN [id |-> req.id, owner |-> n]
                                 ELSE pendingRequest
            /\ wire' = [wire EXCEPT ![extensionSocket] = Append(@, req)]
            /\ UNCHANGED reply

\* sendToExtension whose catch block does not call clearTimeout.
sendToExtensionCatchKeepsTimer(n, req, throws) ==
  IF ~isConnected
  THEN /\ reply' = Reject(reply, n, "Extension not connected")
       /\ UNCHANGED <<pendingRequest, timer, wire>>
  ELSE IF throws
       THEN /\ timer' = [timer EXCEPT ![n] = "armed"]
            /\ pendingRequest' = NoPending
            /\ reply' = Reject(reply, n, "send failed")
            /\ UNCHANGED wire
       ELSE /\ timer' = [timer EXCEPT ![n] = "armed"]
            /\ pendingRequest' = [id |-> req.id, owner |-> n]
            /\ wire' = [wire EXCEPT ![extensionSocket] = Append(@, req)]
            /\ UNCHANGED reply

\* sendToExtension that gives up the request in the slot when it finds
\* the extension not connected.
sendToExtensionNotConnectedClears(n, req, throws) ==
  IF ~isConnected
  THEN /\ reply' = Reject(reply, n, "Extension not connected")
       /\ pendingRequest' = NoPending
       /\ timer' = IF pendingRequest # NoPending
                   THEN [timer EXCEPT ![pendingRequest.owner] = ClearTimeout(@)]
                   ELSE timer
       /\ UNCHANGED wire
  ELSE IF throws
       THEN /\ timer' = [timer EXCEPT ![n] = ClearTimeout("armed")]
            /\ pendingRequest' = NoPending
            /\ reply' = Reject(reply, n, "send failed")
            /\ UNCHANGED wire
       ELSE /\ timer' = [timer EXCEPT ![n] = "armed"]
            /\ pendingRequest' = [id |-> req.id, owner |-> n]
            /\ wire' = [wire EXCEPT ![extensionSocket] = Append(@, req)]
            /\ UNCHANGED reply

\* sendToExtension(request), called by handleRequest for the request that
\* was given counter value n; `throws` says whether socket.send throws.
sendToExtension(n, req, throws) ==
  IF ~isConnected
  THEN /\ reply' = Reject(reply, n, "Extension not connected")
       /\ UNCHANGED <<pendingRequest, timer, wire>>
  ELSE IF throws
       THEN /\ timer' = [timer EXCEPT ![n] = ClearTimeout("armed")]
            /\ pendingRequest' = NoPending
            /\ reply' = Reject(reply, n, "send failed")
            /\ UNCHANGED wire
       ELSE /\ timer' = [timer EXCEPT ![n] = "armed"]
            /\ pendingRequest' = [id |-> req.id, owner |-> n]
            /\ wire' = [wire EXCEPT ![extensionSocket] = Append(@, req)]
            /\ UNCHANGED reply

\* The POST /api/command branch with the id minted before the body is
\* parsed.
PostCommandMintsFirst(body, now, throws) ==
  IF ValidCommand(body)
  THEN /\ requestIdCounter < MaxRequests
       /\ LET n == requestIdCounter + 1
              req == [id |-> generateRequestId(now, requestIdCounter),
                      command |-> body.command]
          IN /\ requestIdCounter' = n
             /\ request' = [request EXCEPT ![n] = req]
             /\ sendToExtension(n, req, throws)
       /\ UNCHANGED <<extensionSocket, readyState>>
  ELSE /\ ~throws
       /\ requestIdCounter < MaxRequests
       /\ requestIdCounter' = requestIdCounter + 1
       /\ UNCHANGED <<extensionSocket, pendingRequest, readyState, timer,
                      request, reply, wire>>

\* handleRequest, POST /api/command
PostCommand(body, now, throws) ==
  IF ValidCommand(body)
  THEN /\ requestIdCounter < MaxRequests
       /\ LET n == requestIdCounter + 1
              req == [id |-> generateRequestId(now, requestIdCounter),
                      command |-> body.command]
          IN /\ requestIdCounter' = n
             /\ request' = [request EXCEPT ![n] = req]
             /\ sendToExtension(n, req, throws)
       /\ UNCHANGED <<extensionSocket, readyState>>
  ELSE /\ ~throws
       /\ UNCHANGED relayVars

\* What handleRequest has written when PostCommand returns to the loop:
\* nothing yet for a body that reached sendToExtension (the reply is in
\* `reply`), else the 400 or the 500 of the catch block. sendThrew records
\* that socket.send was called and threw.
PostCommandEvent(body, throws) ==
  IF ValidCommand(body)
  THEN [op |-> "command", n |-> requestIdCounter + 1, body |-> body,
        sendThrew |-> isConnected /\ throws,
        method |-> "POST", url |-> "/api/command"]
  ELSE IF body.kind = "object"
       THEN [op |-> "rejected", status |-> 400,
             error |-> "Missing command field", body |-> body,
             method |-> "POST", url |-> "/api/command"]
       ELSE [op |-> "rejected", status |-> 500, success |-> FALSE,
             error |-> "parse error", body |-> body,
             method |-> "POST", url |-> "/api/command"]

\* Methods and urls of the HTTP requests the relay receives.
Methods == {"OPTIONS", "GET", "POST", "DELETE"}
Urls == {"/api/status", "/api/command", "/"}

\* handleRequest's tests with the status route taken for every method.
RouteStatusAnyMethod(method, url) ==
  IF method = "OPTIONS" THEN "options"
  ELSE IF url = "/api/status" THEN "status"
  ELSE IF url = "/api/command" /\ method = "POST" THEN "command"
  ELSE "notfound"

\* The branch of handleRequest a request takes: the tests in their order.
Route(method, url) ==
  IF method = "OPTIONS" THEN "options"
  ELSE IF url = "/api/status" /\ method = "GET" THEN "status"
  ELSE IF url = "/api/command" /\ method = "POST" THEN "command"
  ELSE "notfound"

\* handleRequest, GET /api/status
GetStatus == UNCHANGED relayVars

\* The status reply computed from the stored socket alone.
GetStatusEventStoredOnly ==
  [op |-> "status", status |-> 200, connected |-> extensionSocket # NoSocket,
   method |-> "GET", url |-> "/api/status"]

\* 200 {connected: isConnected()}
GetStatusEvent ==
  [op |-> "status", status |-> 200, connected |-> isConnected,
   method |-> "GET", url |-> "/api/status"]

\* handleRequest, OPTIONS on any path
Options == UNCHANGED relayVars

\* handleRequest, any other method and path
NotFound == UNCHANGED relayVars

\* -------------------------------------------------------- specifications
\* One task of the event loop, with the record of the handler that ran.
\* SendThrows is the set of outcomes of socket.send: {FALSE} when it always
\* returns, BOOLEAN when it may also throw.
RelayStep(SendThrows) ==
  \/ \E s \in Sockets :
       Connection(s) /\ UNCHANGED extVars
       /\ lastEvent' = [op |-> "connection", socket |-> s]
  \/ \E s \in Sockets :
       BeginClose(s) /\ UNCHANGED extVars
       /\ lastEvent' = [op |-> "closing", socket |-> s]
  \/ \E s \in Sockets :
       SocketClose(s) /\ UNCHANGED extVars
       /\ lastEvent' = [op |-> "close", socket |-> s]
  \/ \E s \in Sockets :
       SocketError(s) /\ UNCHANGED extVars
       /\ lastEvent' = [op |-> "error", socket |-> s]
  \/ \E frame \in Frames :
       Message(frame) /\ UNCHANGED extVars
       /\ lastEvent' = [op |-> "message", frame |-> frame]
  \/ \E n \in Requests :
       Timeout(n) /\ UNCHANGED extVars
       /\ lastEvent' = [op |-> "timeout", n |-> n]
  \/ \E m \in Methods, u \in Urls, body \in Bodies, now \in Timestamps,
        throws \in SendThrows :
       /\ Route(m, u) = "command"
       /\ PostCommand(body, now, throws) /\ UNCHANGED extVars
       /\ lastEvent' = [PostCommandEvent(body, throws)
                          EXCEPT !.method = m, !.url = u]
  \/ \E m \in Methods, u \in Urls :
       /\ Route(m, u) = "status"
       /\ GetStatus /\ UNCHANGED extVars
       /\ lastEvent' = [GetStatusEvent EXCEPT !.method = m, !.url = u]
  \/ \E m \in Methods, u \in Urls :
       /\ Route(m, u) = "options"
       /\ Options /\ UNCHANGED extVars
       /\ lastEvent' = [op |-> "options", status |-> 200, text |-> "",
                        method |-> m, url |-> u]
  \/ \E m \in Methods, u \in Urls :
       /\ Route(m, u) = "notfound"
       /\ NotFound /\ UNCHANGED extVars
       /\ lastEvent' = [op |-> "notfound", status |-> 404,
                        error |-> "Not found", method |-> m, url |-> u]

\* The relay as deployed: ws does not throw from send on an OPEN socket and
\* JSON.stringify does not throw on a parsed body.
Next == RelayStep({FALSE})

Spec == Init /\ [][Next]_vars

\* The relay with a send that may throw (the catch block of sendToExtension).
FaultNext == RelayStep(BOOLEAN)

FaultSpec == Init /\ [][FaultNext]_vars

\* The relay alone, send faults included: the same handlers, with no record
\* of the last one.
CoreNext ==
  \/ \E s \in Sockets : Connection(s) /\ UNCHANGED <<lastEvent, extVars>>
  \/ \E s \in Sockets : BeginClose(s) /\ UNCHANGED <<lastEvent, extVars>>
  \/ \E s \in Sockets : SocketClose(s) /\ UNCHANGED <<lastEvent, extVars>>
  \/ \E s \in Sockets : SocketError(s) /\ UNCHANGED <<lastEvent, extVars>>
  \/ \E frame \in Frames :
       Message(frame) /\ UNCHANGED <<lastEvent, extVars>>
  \/ \E n \in Requests : Timeout(n) /\ UNCHANGED <<lastEvent, extVars>>
  \/ \E body \in Bodies, now \in Timestamps, throws \in BOOLEAN :
       PostCommand(body, now, throws) /\ UNCHANGED <<lastEvent, extVars>>
  \/ GetStatus /\ UNCHANGED <<lastEvent, extVars>>
  \/ Options /\ UNCHANGED <<lastEvent, extVars>>
  \/ NotFound /\ UNCHANGED <<lastEvent, extVars>>

CoreSpec == Init /\ [][CoreNext]_vars

\* Armed timers eventually expire: Node runs the callback of a timer that
\* stays armed.
FairSpec ==
  CoreSpec /\ \A n \in Requests : WF_vars(Timeout(n) /\ UNCHANGED <<lastEvent, extVars>>)

\* ===================================================================
\* The executor: src/src/extension/service-worker.js
\* ===================================================================
\* ------------------------------------------------------------- urlMatches
\* text.includes(part)
Includes(text, part) ==
  \E i \in 0..(Len(text) - Len(part)) :
    SubSeq(text, i + 1, i + Len(part)) = part

\* The characters of the class /[.+?^${}()|[\]\\]/
RegexSpecials ==
  {".", "+", "?", "^", "$", "{", "}", "(", ")", "|", "[", "]", "\\"}

\* The first replace left out: the pattern goes to the RegExp as it is.
EscapeNothing(pattern) == pattern

\* pattern.replace(/[.+?^${}()|[\]\\]/g, '\\$&')
RECURSIVE Escape(_)
Escape(pattern) ==
  IF pattern = <<>>
  THEN <<>>
  ELSE (IF Head(pattern) \in RegexSpecials
        THEN <<"\\", Head(pattern)>>
        ELSE <<Head(pattern)>>) \o Escape(Tail(pattern))

\* .replace(/\*/g, '.*')
RECURSIVE StarToDotStar(_)
StarToDotStar(text) ==
  IF text = <<>>
  THEN <<>>
  ELSE (IF Head(text) = "*" THEN <<".", "*">> ELSE <<Head(text)>>)
       \o StarToDotStar(Tail(text))

\* new RegExp(source), for the sources the two replaces produce: a
\* backslash makes the next character a literal, `.*` is any run of
\* characters, a `.` alone is any one character, any other character
\* is a literal.
RECURSIVE Compile(_)
Compile(source) ==
  IF source = <<>>
  THEN <<>>
  ELSE IF Head(source) = "\\" /\ Len(source) >= 2
       THEN <<[any |-> FALSE, run |-> FALSE, ch |-> source[2]]>>
            \o Compile(SubSeq(source, 3, Len(source)))
       ELSE IF Head(source) = "." /\ Len(source) >= 2 /\ source[2] = "*"
            THEN <<[any |-> TRUE, run |-> TRUE, ch |-> ""]>>
                 \o Compile(SubSeq(source, 3, Len(source)))
            ELSE IF Head(source) = "."
                 THEN <<[any |-> TRUE, run |-> FALSE, ch |-> ""]>>
                      \o Compile(Tail(source))
                 ELSE <<[any |-> FALSE, run |-> FALSE, ch |-> Head(source)]>>
                      \o Compile(Tail(source))

\* The rest of the regex matches text from position pos on.
RECURSIVE MatchAt(_, _, _)
MatchAt(tokens, text, pos) ==
  IF tokens = <<>>
  THEN TRUE
  ELSE IF Head(tokens).run
       THEN \E k \in pos..(Len(text) + 1) : MatchAt(Tail(tokens), text, k)
       ELSE /\ pos <= Len(text)
            /\ Head(tokens).any \/ text[pos] = Head(tokens).ch
            /\ MatchAt(Tail(tokens), text, pos + 1)

\* regex.test(text): the regex is not anchored.
RegexTest(tokens, text) ==
  \E start \in 1..(Len(text) + 1) : MatchAt(tokens, text, start)

\* urlMatches without the wildcard branch.
urlMatchesSubstringOnly(url, pattern) ==
  IF pattern = <<>> THEN TRUE ELSE Includes(url, pattern)

\* urlMatches(url, pattern); an absent pattern is the empty text.
urlMatches(url, pattern) ==
  IF pattern = <<>>
  THEN TRUE
  ELSE IF \E i \in DOMAIN pattern : pattern[i] = "*"
       THEN RegexTest(Compile(StarToDotStar(Escape(pattern))), url)
       ELSE Includes(url, pattern)

\* --------------------------------------------------------- tab commands
\* tabs.filter(tab => urlMatches(tab.url, urlPattern))
Matching(ts, urlPattern) ==
  SelectSeq(ts, LAMBDA t : urlMatches(t.url, urlPattern))

\* listTabs(urlPattern): the tabs it returns.
listTabs(ts, urlPattern) ==
  IF urlPattern # <<>> THEN Matching(ts, urlPattern) ELSE ts

\* reloadTabs with an absent scope reloading like 'all'.
reloadTabsNoDefault(ts, urlPattern, scope) ==
  LET matching == IF urlPattern # <<>> THEN Matching(ts, urlPattern) ELSE ts
  IN IF scope = "first" /\ Len(matching) > 0
     THEN <<matching[1]>>
     ELSE matching

\* reloadTabs(urlPattern, scope = 'first'): the tabs it calls
\* chrome.tabs.reload for, in order; it returns their number.
reloadTabs(ts, urlPattern, scope) ==
  LET scopeArg == IF scope = "undefined" THEN "first" ELSE scope
      matching == IF urlPattern # <<>> THEN Matching(ts, urlPattern) ELSE ts
  IN IF scopeArg = "first" /\ Len(matching) > 0
     THEN <<matching[1]>>
     ELSE matching

\* The ids of a sequence of tabs: matching.map(tab => tab.id)
TabIds(ts) == [i \in DOMAIN ts |-> ts[i].id]

\* chrome.tabs.remove(tabIds): the tabs that are left.
RemoveTabs(ts, ids) ==
  SelectSeq(ts, LAMBDA t : \A i \in DOMAIN ids : ids[i] # t.id)

\* The id chrome.tabs.create gives the new tab: one never used before.
\* Ids only grow, and a run creates at most MaxCommands tabs.
FreshTabId(ts, cmds) ==
  Len(InitialTabs) + 1
  + Cardinality({ c \in DOMAIN cmds : cmds[c].created # <<>> })

\* ------------------------------------------------------ executor: requests
\* url values of a request: absent (<<>>) or a pattern.
Patterns == { <<>>, <<"b">>, <<"a", ".", "*">> }
\* scope values of a request: absent or a string.
Scopes == {"undefined", "first", "all"}
\* The url of an open command.
OpenUrls == { <<>>, <<"c">> }

\* The requests the relay may forward: any command string with any url and
\* scope. The fields a command does not read are left absent.
ExtRequests ==
  { [command |-> c, url |-> <<>>, scope |-> "undefined"] : c \in {"ping", "bogus"} }
  \cup { [command |-> "list", url |-> u, scope |-> "undefined"] : u \in Patterns }
  \cup { [command |-> "reload", url |-> u, scope |-> sc] :
           u \in Patterns, sc \in Scopes }
  \cup { [command |-> "close", url |-> u, scope |-> "undefined"] : u \in Patterns }
  \cup { [command |-> "open", url |-> u, scope |-> "undefined"] : u \in OpenUrls }

\* The commands of the switch in executeCommand.
KnownCommands == {"ping", "list", "reload", "close", "open"}

\* executeCommand settles the request before its first suspension: ping,
\* an unknown command, and close/open without url (closeTabs and openTab
\* throw before their first await).
SettlesAtOnce(req) ==
  \/ req.command = "ping"
  \/ req.command \notin KnownCommands
  \/ req.command \in {"close", "open"} /\ req.url = <<>>

\* What executeCommand passes to sendResponse for such a request.
ImmediateOutcome(req) ==
  IF req.command = "ping"
  THEN [success |-> TRUE, data |-> [ty |-> "string", s |-> "pong"]]
  ELSE IF req.command = "close"
       THEN [success |-> FALSE,
             data |-> [ty |-> "string",
                       s |-> "URL pattern required for close command"]]
       ELSE IF req.command = "open"
            THEN [success |-> FALSE,
                  data |-> [ty |-> "string",
                            s |-> "URL required for open command"]]
            ELSE [success |-> FALSE,
                  data |-> [ty |-> "string", s |-> "Unknown command", c |-> req.command]]

\* sendResponse(id, success, data) written twice.
sendResponseTwice(id, success, data) ==
  outbox' =
    IF socket # NoSocket /\ wsReadyState[socket] = OPEN
    THEN Append(Append(outbox, [sock |-> socket, id |-> id, success |-> success,
                                data |-> data]),
                [sock |-> socket, id |-> id, success |-> success, data |-> data])
    ELSE outbox

\* sendResponse(id, success, data)
sendResponse(id, success, data) ==
  outbox' =
    IF socket # NoSocket /\ wsReadyState[socket] = OPEN
    THEN Append(outbox, [sock |-> socket, id |-> id, success |-> success,
                         data |-> data])
    ELSE outbox

\* ----------------------------------------------------- executor: sockets
\* connect(): nothing when the socket is open or connecting, else a new
\* WebSocket with the four handlers. `new WebSocket` with the constant
\* address does not throw.
connect ==
  IF socket # NoSocket /\ wsReadyState[socket] \in {OPEN, CONNECTING}
  THEN UNCHANGED <<socket, connectionState, wsReadyState>>
  ELSE \E s \in ExtSockets :
         /\ wsReadyState[s] = NotCreated
         /\ \A r \in ExtSockets : r < s => wsReadyState[r] # NotCreated
         /\ connectionState' = "connecting"
         /\ socket' = s
         /\ wsReadyState' = [wsReadyState EXCEPT ![s] = CONNECTING]

\* chrome.runtime.onInstalled listener
OnInstalled ==
  /\ connect
  /\ UNCHANGED <<reconnectTimers, tabs, command, outbox>>

\* chrome.runtime.onStartup listener
OnStartup ==
  /\ connect
  /\ UNCHANGED <<reconnectTimers, tabs, command, outbox>>

\* The callback of setTimeout(connect, RECONNECT_DELAY)
ReconnectTimer ==
  /\ reconnectTimers > 0
  /\ reconnectTimers' = reconnectTimers - 1
  /\ connect
  /\ UNCHANGED <<tabs, command, outbox>>

\* chrome.alarms.onAlarm listener, alarm 'keepAlive'
KeepAlive ==
  /\ IF connectionState = "disconnected"
     THEN connect
     ELSE UNCHANGED <<socket, connectionState, wsReadyState>>
  /\ UNCHANGED <<reconnectTimers, tabs, command, outbox>>

\* socket.onopen = onConnected
onConnected(s) ==
  /\ wsReadyState[s] = CONNECTING
  /\ wsReadyState' = [wsReadyState EXCEPT ![s] = OPEN]
  /\ connectionState' = "connected"
  /\ UNCHANGED <<socket, reconnectTimers, tabs, command, outbox>>

\* The closing handshake starts on an open socket; its close event comes
\* in a later task.
WsBeginClose(s) ==
  /\ wsReadyState[s] = OPEN
  /\ wsReadyState' = [wsReadyState EXCEPT ![s] = CLOSING]
  /\ UNCHANGED <<socket, connectionState, reconnectTimers, tabs, command, outbox>>

\* socket.onerror = onError: the handler only logs; the browser has failed
\* the connection and the close event follows.
onError(s) ==
  /\ wsReadyState[s] \in {CONNECTING, OPEN}
  /\ wsReadyState' = [wsReadyState EXCEPT ![s] = CLOSING]
  /\ UNCHANGED <<socket, connectionState, reconnectTimers, tabs, command, outbox>>

\* onDisconnected without its scheduleReconnect().
onDisconnectedNoReconnect(s) ==
  /\ wsReadyState[s] \in {CONNECTING, OPEN, CLOSING}
  /\ wsReadyState' = [wsReadyState EXCEPT ![s] = CLOSED]
  /\ connectionState' = "disconnected"
  /\ socket' = NoSocket
  /\ UNCHANGED <<reconnectTimers, tabs, command, outbox>>

\* socket.onclose = onDisconnected, with scheduleReconnect()
onDisconnected(s) ==
  /\ wsReadyState[s] \in {CONNECTING, OPEN, CLOSING}
  /\ wsReadyState' = [wsReadyState EXCEPT ![s] = CLOSED]
  /\ connectionState' = "disconnected"
  /\ socket' = NoSocket
  /\ reconnectTimers' = reconnectTimers + 1
  /\ UNCHANGED <<tabs, command, outbox>>

\* ---------------------------------------------------- executor: commands
\* socket.onmessage = onMessage with a request of the relay, and
\* executeCommand up to its first suspension. The request goes to the
\* next free place of `command`; its id is the one the relay minted.
onMessage(s, req) ==
  /\ wsReadyState[s] = OPEN
  /\ \E c \in CommandSlots, now \in Timestamps :
       /\ command[c] = NoCommand
       /\ \A b \in CommandSlots : b < c => command[b] # NoCommand
       /\ LET id == <<now, c>>
              received == [NoCommand EXCEPT !.id = id,
                                            !.command = req.command,
                                            !.url = req.url,
                                            !.scope = req.scope]
          IN IF SettlesAtOnce(req)
             THEN /\ command' = [command EXCEPT ![c] =
                                   [received EXCEPT !.phase = "done"]]
                  /\ sendResponse(id, ImmediateOutcome(req).success,
                                  ImmediateOutcome(req).data)
             ELSE /\ command' = [command EXCEPT ![c] =
                                   [received EXCEPT !.phase = "running"]]
                  /\ UNCHANGED outbox
  /\ UNCHANGED <<socket, connectionState, wsReadyState, reconnectTimers, tabs>>

\* onMessage with data JSON.parse rejects: the catch block logs.
onMessageUnparsable(s) ==
  /\ wsReadyState[s] = OPEN
  /\ UNCHANGED extVars

\* executeCommand from its first suspension to its end: the chrome.tabs
\* calls of the command, then sendResponse. The calls succeed: the tabs
\* that chrome.tabs.query returned are still there when the command
\* reloads or removes them.
executeCommandResume(c) ==
  /\ command[c].phase = "running"
  /\ LET req == command[c]
     IN CASE req.command = "list" ->
               /\ command' = [command EXCEPT ![c].phase = "done"]
               /\ sendResponse(req.id, TRUE,
                               [ty |-> "tabs", l |-> listTabs(tabs, req.url)])
               /\ UNCHANGED tabs
          [] req.command = "reload" ->
               LET chosen == reloadTabs(tabs, req.url, req.scope)
               IN /\ command' = [command EXCEPT ![c].phase = "done",
                                                ![c].reloaded = TabIds(chosen)]
                  /\ sendResponse(req.id, TRUE,
                                  [ty |-> "number", n |-> Len(chosen)])
                  /\ UNCHANGED tabs
          [] req.command = "close" ->
               LET tabIds == TabIds(Matching(tabs, req.url))
               IN /\ command' = [command EXCEPT ![c].phase = "done",
                                                ![c].removed = tabIds]
                  /\ tabs' = RemoveTabs(tabs, tabIds)
                  /\ sendResponse(req.id, TRUE,
                                  [ty |-> "number", n |-> Len(tabIds)])
          [] req.command = "open" ->
               LET tabId == FreshTabId(tabs, command)
               IN /\ command' = [command EXCEPT ![c].phase = "done",
                                                ![c].created = <<tabId>>]
                  /\ tabs' = Append(tabs, [id |-> tabId, url |-> req.url])
                  /\ sendResponse(req.id, TRUE,
                                  [ty |-> "number", n |-> tabId])
  /\ UNCHANGED <<socket, connectionState, wsReadyState, reconnectTimers>>

\* ------------------------------------------------ executor: specification
relayAll == <<relayVars, lastEvent, match>>

ExtNext ==
  \/ OnInstalled /\ UNCHANGED relayAll
  \/ OnStartup /\ UNCHANGED relayAll
  \/ ReconnectTimer /\ UNCHANGED relayAll
  \/ KeepAlive /\ UNCHANGED relayAll
  \/ \E s \in ExtSockets : onConnected(s) /\ UNCHANGED relayAll
  \/ \E s \in ExtSockets : WsBeginClose(s) /\ UNCHANGED relayAll
  \/ \E s \in ExtSockets : onError(s) /\ UNCHANGED relayAll
  \/ \E s \in ExtSockets : onDisconnected(s) /\ UNCHANGED relayAll
  \/ \E s \in ExtSockets, req \in ExtRequests :
       onMessage(s, req) /\ UNCHANGED relayAll
  \/ \E s \in ExtSockets : onMessageUnparsable(s) /\ UNCHANGED relayAll
  \/ \E c \in CommandSlots : executeCommandResume(c) /\ UNCHANGED relayAll

\* The extension alone; the relay's variables stay as they start.
ExtSpec == Init /\ [][ExtNext]_vars

\* The connection handling of the extension, with the record of the
\* handler that ran. Requests are left out: onMessage and executeCommand
\* assign neither socket nor connectionState and arm no timer.
relayState == <<relayVars, match>>

ReconnectNext ==
  \/ OnInstalled /\ UNCHANGED relayState /\ lastEvent' = [op |-> "onInstalled"]
  \/ OnStartup /\ UNCHANGED relayState /\ lastEvent' = [op |-> "onStartup"]
  \/ ReconnectTimer /\ UNCHANGED relayState
     /\ lastEvent' = [op |-> "reconnectTimer"]
  \/ KeepAlive /\ UNCHANGED relayState
     /\ lastEvent' = [op |-> "keepAlive", state |-> connectionState]
  \/ \E s \in ExtSockets :
       onConnected(s) /\ UNCHANGED relayState
       /\ lastEvent' = [op |-> "onConnected", socket |-> s]
  \/ \E s \in ExtSockets :
       WsBeginClose(s) /\ UNCHANGED relayState
       /\ lastEvent' = [op |-> "closing", socket |-> s]
  \/ \E s \in ExtSockets :
       onError(s) /\ UNCHANGED relayState
       /\ lastEvent' = [op |-> "onError", socket |-> s]
  \/ \E s \in ExtSockets :
       onDisconnected(s) /\ UNCHANGED relayState
       /\ lastEvent' = [op |-> "onDisconnected", socket |-> s]

\* The callback of an armed setTimeout(connect, RECONNECT_DELAY) runs: the
\* service worker is kept alive by the keepAlive alarm.
ReconnectSpec ==
  /\ Init
  /\ [][ReconnectNext]_vars
  /\ WF_vars(ReconnectTimer /\ UNCHANGED relayState
             /\ lastEvent' = [op |-> "reconnectTimer"])

\* ------------------------------------------------- urlMatches on its own
\* Longest url and pattern given to urlMatches.
MaxTextLen == 3

\* All texts of at most n characters of a set.
Texts(chars, n) == UNION { [1..k -> chars] : k \in 0..n }

\* Characters of urls, and of patterns: a letter, two characters the
\* RegExp syntax gives a meaning to, and the wildcard.
UrlChars == {"a", ".", "+"}
PatternChars == UrlChars \cup {"*"}

\* 'http://10' and the pattern 'http://10.*' of the README
Http10 == <<"h", "t", "t", "p", ":", "/", "/", "1", "0">>
Http10Pattern == Http10 \o <<".", "*">>
\* What may follow 'http://10' in a url
SuffixChars == {".", "0", ":", "/"}

\* The arguments of a call: a tab's url and a request's url.
MatchInputs ==
  { [NoMatch EXCEPT !.url = u, !.pattern = p] :
      u \in Texts(UrlChars, MaxTextLen), p \in Texts(PatternChars, MaxTextLen) }
  \cup { [NoMatch EXCEPT !.url = Http10 \o sfx, !.pattern = Http10Pattern] :
           sfx \in Texts(SuffixChars, MaxTextLen - 1) }

MatchInit ==
  /\ StartState
  /\ match \in MatchInputs

\* The call urlMatches(match.url, match.pattern)
ApplyUrlMatches ==
  /\ ~match.done
  /\ match' = [match EXCEPT !.done = TRUE,
                            !.result = urlMatches(match.url, match.pattern)]
  /\ UNCHANGED <<relayVars, lastEvent, socket, connectionState, wsReadyState,
                 reconnectTimers, tabs, command, outbox>>

PatternNext == ApplyUrlMatches

PatternSpec == MatchInit /\ [][PatternNext]_vars

\* ===================================================================
\* Vocabulary of the properties
\* ===================================================================
\* What the caller of a rejected request reads.
ErrorReply(message) ==
  [status |-> 500, body |-> [success |-> FALSE, error |-> message]]

\* Request n was written to socket s.
SentOn(n, s) == \E i \in DOMAIN wire[s] : wire[s][i].id = request[n].id

\* Requests that were sent and are neither resolved nor rejected.
Outstanding == { n \in Requests : Unsettled(n) }

\* The reply carries the success and data of response object f: the object
\* itself when it reports success, its data as the error text otherwise.
Conveys(rep, f) ==
  IF f.success
  THEN rep = [status |-> 200,
              body |-> [id |-> f.id, success |-> TRUE, data |-> f.data]]
  ELSE rep = ErrorReply(ErrorMessage(f.data))

\* Request n never shared the slot with another request: every other
\* request was rejected by the 'close' handler, which rejects only the
\* request in the slot, so none of them was overwritten by n or overwrote n.
NoOverlapWith(n) ==
  \A m \in Requests \ {n} :
    request[m] = NoRequest \/ reply[m] = ErrorReply("Extension disconnected")

\* The socket of the latest handshake (NoSocket before the first one).
LatestSocket ==
  IF \A s \in Sockets : readyState[s] = 0
  THEN NoSocket
  ELSE CHOOSE s \in Sockets :
         readyState[s] # 0 /\ \A r \in Sockets : r > s => readyState[r] = 0

\* ===================================================================
\* C1. A response with the id of a request that is still waiting, whose
\* timer has not fired and whose socket is the stored, open one (so no
\* socket has closed since it was sent), settles that request's caller with
\* the response's success and data. Stated for runs without overlapping
\* requests: every other request so far was rejected by a disconnect.
\* ===================================================================
C1_MatchingResponseReachesCaller ==
  [][ \A n \in Requests :
        ( /\ lastEvent'.op = "message"
          /\ lastEvent'.frame.kind = "response"
          /\ lastEvent'.frame.id = request[n].id
          /\ Unsettled(n)
          /\ timer[n] = "armed"
          /\ isConnected
          /\ SentOn(n, extensionSocket)
          /\ NoOverlapWith(n) )
        => Conveys(reply'[n], lastEvent'.frame) ]_vars

\* ===================================================================
\* C2. Single-flight: at most one request that was sent is still waiting
\* for its outcome.
\* ===================================================================
C2_SingleFlight == Cardinality(Outstanding) <= 1

\* ===================================================================
\* C3. Every POST /api/command that was given an id is eventually
\* answered, whatever the executor and the other callers do, provided
\* armed timers expire.
\* ===================================================================
C3_EveryCallerAnswered ==
  \A n \in Requests : (request[n] # NoRequest) ~> (reply[n] # NoReply)

\* A request that was overwritten in the slot by a later one, and then
\* answered by its own timer while the later one still waits.
C3_Witness ==
  \E n, m \in Requests :
    /\ n < m
    /\ reply[n] = ErrorReply("Request timeout")
    /\ SentOn(n, 1) /\ SentOn(m, 1) /\ readyState[1] = OPEN
    /\ Unsettled(m)
    /\ pendingRequest = NoPending

\* ===================================================================
\* C4. When the stored executor socket closes while the request sent on it
\* is still waiting, the 'close' handler rejects that request with
\* 'Extension disconnected' before its timer has fired, and afterwards the
\* slot is empty and isConnected() is false. Stated for runs without
\* overlapping requests: every other request so far was rejected by a
\* disconnect.
\* ===================================================================
C4_CloseRejectsTheOutstandingRequest ==
  [][ \A s \in Sockets, n \in Requests :
        ( /\ lastEvent'.op = "close" /\ lastEvent'.socket = s
          /\ extensionSocket = s
          /\ Unsettled(n)
          /\ SentOn(n, s)
          /\ NoOverlapWith(n) )
        => /\ reply'[n] = ErrorReply("Extension disconnected")
           /\ timer[n] = "armed"
           /\ pendingRequest' = NoPending
           /\ ~isConnected' ]_vars

\* ===================================================================
\* C5. Right after the 'close' handler has run, no request is still
\* waiting: every request that was waiting has been rejected with
\* 'Extension disconnected'.
\* ===================================================================
C5_NoCallerWaitsPastClose ==
  [][ lastEvent'.op = "close"
      => \A n \in Requests :
           Unsettled(n) => reply'[n] = ErrorReply("Extension disconnected") ]_vars

\* ===================================================================
\* C6. A request submitted while no socket is stored, or while the stored
\* socket is not OPEN, is answered in the same step with 500
\* {success: false, error: 'Extension not connected'}; no timer is armed,
\* nothing is written to a socket and the slot is left alone.
\* ===================================================================
C6_NotConnectedRejectsAtOnce ==
  [][ \A n \in Requests :
        ( /\ lastEvent'.op = "command" /\ lastEvent'.n = n
          /\ requestIdCounter = n - 1
          /\ (extensionSocket = NoSocket \/ readyState[extensionSocket] # OPEN) )
        => /\ reply'[n] = ErrorReply("Extension not connected")
           /\ timer'[n] = "unset"
           /\ UNCHANGED <<pendingRequest, timer, wire, extensionSocket,
                          readyState>> ]_vars

\* A socket is stored but is closing, and the request just submitted was
\* refused.
C6_Witness ==
  /\ lastEvent.op = "command"
  /\ extensionSocket # NoSocket
  /\ readyState[extensionSocket] = 2
  /\ reply[lastEvent.n] = ErrorReply("Extension not connected")

\* ===================================================================
\* C7. A request whose own socket stays open and for which no response
\* with its id arrives is settled only by its own timer, with 'Request
\* timeout'; and no request is written to a socket twice.
\* ===================================================================
C7_OnlyOwnTimerSettles ==
  [][ \A n \in Requests :
        ( /\ Unsettled(n)
          /\ reply'[n] # NoReply
          /\ \E s \in Sockets :
               SentOn(n, s) /\ readyState[s] = OPEN /\ readyState'[s] = OPEN
          /\ ~(lastEvent'.op = "message" /\ lastEvent'.frame.id = request[n].id) )
        => /\ lastEvent' = [op |-> "timeout", n |-> n]
           /\ reply'[n] = ErrorReply("Request timeout")
           /\ Cardinality({ s \in Sockets : SentOn(n, s) }) = 1 ]_vars

\* ===================================================================
\* C8. A response object whose id is not the id in the slot, or that
\* arrives while the slot is empty, changes nothing in the relay.
\* ===================================================================
C8_UnmatchedResponseChangesNothing ==
  [][ ( /\ lastEvent'.op = "message"
        /\ lastEvent'.frame.kind = "response"
        /\ (pendingRequest = NoPending
            \/ pendingRequest.id # lastEvent'.frame.id) )
      => UNCHANGED relayVars ]_vars

\* A response with the id of an earlier request has just been dropped while
\* a later request holds the slot.
C8_Witness ==
  /\ lastEvent.op = "message"
  /\ lastEvent.frame.kind = "response"
  /\ lastEvent.frame.id \in SentIds
  /\ pendingRequest # NoPending
  /\ pendingRequest.id # lastEvent.frame.id

\* ===================================================================
\* C9. A message changes the reply of request n only if it is a response
\* object with n's own id, and then the reply conveys that response; a
\* response with the id of a request that is already answered changes
\* nothing.
\* ===================================================================
C9_NoMisattribution ==
  [][ lastEvent'.op = "message"
      => \A n \in Requests :
           /\ reply'[n] # reply[n]
              => /\ lastEvent'.frame.kind = "response"
                 /\ lastEvent'.frame.id = request[n].id
                 /\ Conveys(reply'[n], lastEvent'.frame)
           /\ (lastEvent'.frame.id = request[n].id /\ reply[n] # NoReply)
              => UNCHANGED relayVars ]_vars

\* A duplicate of the response that answered request n has just arrived
\* while another request m holds the slot; m is still waiting.
C9_Witness ==
  /\ lastEvent.op = "message"
  /\ \E n, m \in Requests :
       /\ n # m
       /\ reply[n].status = 200
       /\ reply[n].body.id = lastEvent.frame.id
       /\ lastEvent.frame.id = request[n].id
       /\ pendingRequest.owner = m
       /\ Unsettled(m)

\* ===================================================================
\* C10. isConnected() is true exactly when the socket of the latest
\* handshake is open.
\* ===================================================================
C10_ConnectedIffLive ==
  isConnected <=> (LatestSocket # NoSocket /\ readyState[LatestSocket] = OPEN)
\* ===================================================================
\* C11. Isolation of a request from the requests settled before it was
\* submitted: when every other request was answered before request n was
\* submitted (by a response, a disconnect or a refusal, none of which can
\* happen to a request once a later one has been sent), a response with
\* n's id that arrives while n waits, n's timer is armed and n's socket is
\* open settles n's caller with that response.
\* ===================================================================
C11_SettledRequestsLeaveNothingBehind ==
  [][ \A n \in Requests :
        ( /\ lastEvent'.op = "message"
          /\ lastEvent'.frame.kind = "response"
          /\ lastEvent'.frame.id = request[n].id
          /\ Unsettled(n)
          /\ timer[n] = "armed"
          /\ \E s \in Sockets : SentOn(n, s) /\ readyState[s] = OPEN
          /\ \A m \in Requests \ {n} :
               \/ request[m] = NoRequest
               \/ /\ m < n
                  /\ reply[m] # NoReply
                  /\ reply[m] # ErrorReply("Request timeout") )
        => Conveys(reply'[n], lastEvent'.frame) ]_vars
\* ===================================================================
\* C12. The timer of a request that has been answered is not armed, so it
\* cannot fire after the answer; and a caller reads 'Request timeout' only
\* when the timer of its own request has fired.
\* ===================================================================
C12_SettledRequestHasNoArmedTimer ==
  \A n \in Requests :
    /\ (request[n] # NoRequest /\ reply[n] # NoReply) => timer[n] # "armed"
    /\ reply[n] = ErrorReply("Request timeout") => timer[n] = "fired"
\* ===================================================================
\* C13. A POST /api/command whose body is a JSON object with a missing or
\* empty command is answered 400 {error: 'Missing command field'}; no id
\* is minted, nothing is written to a socket, no timer is armed and the
\* slot is left as it was.
\* ===================================================================
C13_MissingCommandIsRefused ==
  [][ ( /\ lastEvent'.op \in {"command", "rejected"}
        /\ lastEvent'.body.kind = "object"
        /\ lastEvent'.body.command = "" )
      => /\ UNCHANGED relayVars
         /\ lastEvent'.op = "rejected"
         /\ lastEvent'.status = 400
         /\ lastEvent'.error = "Missing command field" ]_vars

\* A body without command has just been refused while a request holds the
\* slot and waits with its timer armed.
C13_Witness ==
  /\ lastEvent.op = "rejected"
  /\ lastEvent.body.kind = "object"
  /\ lastEvent.body.command = ""
  /\ lastEvent.status = 400
  /\ pendingRequest # NoPending
  /\ Unsettled(pendingRequest.owner)
  /\ timer[pendingRequest.owner] = "armed"
\* ===================================================================
\* C14. A submit that passes validation and finds the stored socket open
\* writes exactly one message, carrying the id minted for it, to that
\* socket (unless send itself throws, and then it writes none); no other
\* step writes to a socket; and no id is on the sockets twice.
\* ===================================================================
C14_OneMessagePerSubmit ==
  [][ LET sends ==
            /\ lastEvent'.op = "command"
            /\ extensionSocket # NoSocket
            /\ readyState[extensionSocket] = OPEN
            /\ reply'[lastEvent'.n] # ErrorReply("send failed")
      IN /\ sends =>
              \E now \in Timestamps :
                wire' = [wire EXCEPT ![extensionSocket] =
                           Append(@, [id |-> <<now, requestIdCounter + 1>>,
                                      command |-> lastEvent'.body.command])]
         /\ ~sends => UNCHANGED wire
         /\ \A n \in Requests :
              Cardinality({ <<s, i>> \in Sockets \X (1..MaxRequests) :
                              /\ i \in DOMAIN wire'[s]
                              /\ request'[n] # NoRequest
                              /\ wire'[s][i].id = request'[n].id }) <= 1 ]_vars

\* Two requests were written to the same socket, one message each, and a
\* third submit has been refused without a message.
C14_Witness ==
  /\ lastEvent.op = "rejected"
  /\ \E s \in Sockets :
       /\ Len(wire[s]) = 2
       /\ wire[s][1].id = request[1].id
       /\ wire[s][2].id = request[2].id
\* ===================================================================
\* C15. Every POST that passes validation advances the counter by one and
\* puts on its request the id made of the clock value and the new counter
\* value, whatever id the caller's body carried; the ids of any two
\* requests of the process differ.
\* ===================================================================
C15_IdsAreFreshAndRelayMinted ==
  [][ /\ lastEvent'.op = "command"
         => /\ requestIdCounter' = requestIdCounter + 1
            /\ \E now \in Timestamps :
                 request'[lastEvent'.n].id = <<now, requestIdCounter'>>
      /\ \A n, m \in Requests :
           (n # m /\ request'[n] # NoRequest /\ request'[m] # NoRequest)
           => request'[n].id # request'[m].id ]_vars

\* The caller of the second request put the id of the first request in its
\* body; the request was given a new id.
C15_Witness ==
  /\ lastEvent.op = "command"
  /\ lastEvent.n = 2
  /\ lastEvent.body.id = request[1].id
  /\ request[2].id = <<1700, 2>>
\* ===================================================================
\* C16. A frame that JSON.parse rejects, or that parses to a value whose
\* id cannot be read, is discarded: the slot, the timers, the sockets and
\* every reply are unchanged, so the request in the slot still waits with
\* its timer armed.
\* ===================================================================
C16_UnparsableFrameIsDiscarded ==
  [][ ( /\ lastEvent'.op = "message"
        /\ lastEvent'.frame.kind # "response" )
      => /\ UNCHANGED relayVars
         /\ \A n \in Requests :
              (Unsettled(n) /\ timer[n] = "armed")
              => (reply'[n] = NoReply /\ timer'[n] = "armed") ]_vars

\* Text that is not JSON has just arrived in place of the reply to the
\* request in the slot, which still waits with its timer armed.
C16_Witness ==
  /\ lastEvent.op = "message"
  /\ lastEvent.frame.kind = "garbage"
  /\ pendingRequest # NoPending
  /\ Unsettled(pendingRequest.owner)
  /\ timer[pendingRequest.owner] = "armed"
  /\ isConnected
\* ===================================================================
\* C17. GET /api/status is answered 200 {connected: c}, where c says
\* whether a socket is stored and is OPEN, and it changes nothing: not the
\* stored socket, the slot, the timers, the counter, the replies or the
\* sockets.
\* ===================================================================
C17_StatusReportsAndChangesNothing ==
  [][ lastEvent'.op = "status"
      => /\ UNCHANGED relayVars
         /\ lastEvent'.status = 200
         /\ lastEvent'.connected =
              (extensionSocket # NoSocket /\ readyState[extensionSocket] = OPEN)
    ]_vars

\* The status was asked while a request waits in the slot and the stored
\* socket is closing; the answer was connected: false.
C17_Witness ==
  /\ lastEvent.op = "status"
  /\ lastEvent.connected = FALSE
  /\ extensionSocket # NoSocket
  /\ pendingRequest # NoPending
  /\ Unsettled(pendingRequest.owner)
  /\ timer[pendingRequest.owner] = "armed"
\* ===================================================================
\* C18. Every response the extension has written carries the id of a
\* request it received and finished executing, whatever the outcome
\* (success, thrown error, unknown command), and no request has more than
\* one response.
\* ===================================================================
C18_ResponsesEchoTheRequestId ==
  /\ \A i \in DOMAIN outbox :
       \E c \in CommandSlots :
         /\ command[c].phase = "done"
         /\ command[c].id = outbox[i].id
  /\ \A c \in CommandSlots :
       Cardinality({ i \in DOMAIN outbox : outbox[i].id = command[c].id }) <= 1

\* Two requests were answered, one with success and one, an unknown
\* command, with a failure; each response has its own request's id.
C18_Witness ==
  /\ Len(outbox) = 2
  /\ outbox[1].success
  /\ ~outbox[2].success
  /\ outbox[2].data.s = "Unknown command"
  /\ outbox[1].id = command[1].id
  /\ outbox[2].id = command[2].id
  /\ command[1].id # command[2].id
\* ===================================================================
\* C19. When a reload command finishes: with scope 'first' or no scope,
\* the tabs reloaded are the first tab that matches, in query order, if
\* any tab matches, and none otherwise; with scope 'all' they are all the
\* tabs that match, in order; and the number in the response is the number
\* of tabs reloaded.
\* ===================================================================
C19_ReloadScope ==
  [][ \A c \in CommandSlots :
        ( /\ command[c].phase = "running"
          /\ command[c].command = "reload"
          /\ command'[c].phase = "done" )
        => LET m == SelectSeq(tabs, LAMBDA t : urlMatches(t.url, command[c].url))
               done == command'[c].reloaded
           IN /\ command[c].scope \in {"first", "undefined"}
                 => done = IF Len(m) = 0 THEN <<>> ELSE <<m[1].id>>
              /\ command[c].scope = "all"
                 => done = [i \in DOMAIN m |-> m[i].id]
              /\ outbox' # outbox
                 => /\ outbox'[Len(outbox')].success
                    /\ outbox'[Len(outbox')].data =
                         [ty |-> "number", n |-> Len(done)] ]_vars

\* A reload without scope found two matching tabs, reloaded the first one
\* only and answered 1.
C19_Witness ==
  \E c \in CommandSlots :
    /\ command[c].command = "reload"
    /\ command[c].scope = "undefined"
    /\ command[c].phase = "done"
    /\ Len(Matching(tabs, command[c].url)) >= 2
    /\ command[c].reloaded = <<Matching(tabs, command[c].url)[1].id>>
    /\ \E i \in DOMAIN outbox :
         /\ outbox[i].id = command[c].id
         /\ outbox[i].data = [ty |-> "number", n |-> 1]
\* ===================================================================
\* C20. When the extension receives a close command without url, or an
\* open command without url, no tab is closed or created and one failure
\* response with the request's id is written: success false and the text
\* 'URL pattern required for close command', respectively 'URL required
\* for open command'.
\* ===================================================================
C20_MissingUrlIsAnsweredWithFailure ==
  [][ \A c \in CommandSlots :
        ( /\ command[c] = NoCommand
          /\ command'[c] # NoCommand
          /\ command'[c].command \in {"close", "open"}
          /\ command'[c].url = <<>> )
        => /\ tabs' = tabs
           /\ command'[c].removed = <<>>
           /\ command'[c].created = <<>>
           /\ Len(outbox') = Len(outbox) + 1
           /\ outbox'[Len(outbox')].id = command'[c].id
           /\ ~outbox'[Len(outbox')].success
           /\ outbox'[Len(outbox')].data.s =
                IF command'[c].command = "close"
                THEN "URL pattern required for close command"
                ELSE "URL required for open command" ]_vars
\* ===================================================================
\* C21. For a non-empty pattern: without '*', urlMatches is true exactly
\* when the url contains the pattern; with '*', exactly when the url
\* contains the pieces of the pattern between the '*'s, in order and
\* without overlap, every character of a piece standing for itself.
\* ===================================================================
\* The pieces of a pattern between its '*'s.
RECURSIVE SplitStar(_)
SplitStar(pattern) ==
  IF \A i \in DOMAIN pattern : pattern[i] # "*"
  THEN <<pattern>>
  ELSE LET i == CHOOSE j \in DOMAIN pattern :
                  pattern[j] = "*" /\ \A k \in 1..(j - 1) : pattern[k] # "*"
       IN <<SubSeq(pattern, 1, i - 1)>>
          \o SplitStar(SubSeq(pattern, i + 1, Len(pattern)))

\* The pieces occur in text in order, the first not before offset from.
RECURSIVE InOrder(_, _, _)
InOrder(pieces, text, from) ==
  IF pieces = <<>>
  THEN TRUE
  ELSE \E at \in from..(Len(text) - Len(Head(pieces))) :
         /\ \A k \in 1..Len(Head(pieces)) : text[at + k] = Head(pieces)[k]
         /\ InOrder(Tail(pieces), text, at + Len(Head(pieces)))

C21_UrlMatchesIsGlobContainment ==
  (match.done /\ match.pattern # <<>>)
  => (match.result <=> InOrder(SplitStar(match.pattern), match.url, 0))

\* A pattern with a '.' and a '*' was matched against a url in which other
\* text stands where the '*' is.
C21_Witness ==
  /\ match.done
  /\ match.result
  /\ match.pattern = <<".", "*", "a">>
  /\ match.url = <<".", "+", "a">>
C23_OverwrittenCallerIsOrphaned ==
  [][\A n \in Requests :
       /\ ( /\ Unsettled(n)
            /\ pendingRequest.owner = n
            /\ lastEvent'.op = "command"
            /\ isConnected )
          => /\ pendingRequest' = [id |-> request'[lastEvent'.n].id,
                                   owner |-> lastEvent'.n]
             /\ lastEvent'.n # n
             /\ Unsettled(n)'
       /\ (Unsettled(n) /\ pendingRequest.owner # n)
          => /\ pendingRequest'.owner # n
             /\ (lastEvent'.op = "message" /\ lastEvent'.frame.id = request[n].id)
                => UNCHANGED <<pendingRequest, timer, reply>>
             /\ reply'[n] # NoReply
                => /\ reply'[n] = ErrorReply("Request timeout")
                   /\ lastEvent'.op = "timeout"
                   /\ lastEvent'.n = n
    ]_vars

\* Request 2 took the slot from request 1, and a response with the id of
\* request 1 has just arrived on the open socket.
C23_Witness ==
  /\ Unsettled(1)
  /\ pendingRequest = [id |-> request[2].id, owner |-> 2]
  /\ SentOn(1, extensionSocket)
  /\ lastEvent.op = "message"
  /\ lastEvent.frame.id = request[1].id
  /\ lastEvent.frame.success
C25_ErrorEventClearsTheSlots ==
  [][( /\ lastEvent'.op = "error"
       /\ lastEvent'.socket = extensionSocket )
     => /\ extensionSocket' = NoSocket
        /\ ~isConnected'
        /\ pendingRequest # NoPending
           => /\ pendingRequest' = NoPending
              /\ reply'[pendingRequest.owner] # NoReply
    ]_vars

\* ===================================================================
\* C26. A handshake puts its socket in the slot whatever the slot held,
\* and once a socket has replaced an earlier one, every request submitted
\* while it is the latest socket and open is written to it, and none is
\* written to any other socket.
\* ===================================================================
C26_LaterRequestsGoToTheNewSocket ==
  [][ /\ lastEvent'.op = "connection" => extensionSocket' = lastEvent'.socket
      /\ ( /\ lastEvent'.op = "command"
           /\ LatestSocket > 1
           /\ readyState[LatestSocket] = OPEN )
         => /\ wire'[LatestSocket] =
                 Append(wire[LatestSocket], request'[lastEvent'.n])
            /\ \A s \in Sockets \ {LatestSocket} : wire'[s] = wire[s]
    ]_vars
\* ===================================================================
\* C27. When socket.send throws inside sendToExtension, the same step
\* rejects the caller with the error thrown, cancels the timer armed for
\* the request and leaves the slot empty; afterwards the reply stands and
\* the cancelled timer never fires.
\* ===================================================================
C27_SendFailureIsReportedAtOnce ==
  [][ /\ (lastEvent'.op = "command" /\ lastEvent'.sendThrew)
         => /\ reply'[lastEvent'.n] = ErrorReply("send failed")
            /\ timer'[lastEvent'.n] = "cancelled"
            /\ pendingRequest' = NoPending
            /\ \A s \in Sockets : wire'[s] = wire[s]
      /\ \A n \in Requests :
           /\ reply[n] = ErrorReply("send failed") => reply'[n] = reply[n]
           /\ timer[n] = "cancelled" => timer'[n] = "cancelled"
    ]_vars

\* The send of request 1 threw, and a later task has run.
C27_Witness ==
  /\ reply[1] = ErrorReply("send failed")
  /\ timer[1] = "cancelled"
  /\ lastEvent.op = "timeout"
\* ===================================================================
\* C28. A POST /api/command whose body is not JSON is answered 500 with
\* success false and an error message; no id is minted, nothing is
\* written to a socket, and the connection slot, the pending slot, the
\* timers and the replies of other requests are as before.
\* ===================================================================
C28_UnparsableBodyIsAnswered500 ==
  [][ ( /\ lastEvent'.op \in {"command", "rejected"}
        /\ lastEvent'.body.kind = "text" )
      => /\ lastEvent'.op = "rejected"
         /\ lastEvent'.status = 500
         /\ lastEvent'.success = FALSE
         /\ lastEvent'.error # ""
         /\ requestIdCounter' = requestIdCounter
         /\ wire' = wire
         /\ extensionSocket' = extensionSocket
         /\ pendingRequest' = pendingRequest
         /\ UNCHANGED <<readyState, timer, request, reply>> ]_vars

\* A body that is not JSON has just been answered 500 while a request
\* holds the slot.
C28_Witness ==
  /\ lastEvent.op = "rejected"
  /\ lastEvent.body.kind = "text"
  /\ lastEvent.status = 500
  /\ isConnected
  /\ pendingRequest # NoPending
  /\ requestIdCounter = 1

\* ===================================================================
\* C29. Every HTTP request is answered by exactly one branch, chosen by
\* method and url: OPTIONS on any url gets 200 with an empty body, GET
\* /api/status the status reply, POST /api/command the command handling,
\* and every other request 404 with error 'Not found'; the 200 of OPTIONS
\* and the 404 change nothing in the relay, and a reply once written is
\* never written again.
\* ===================================================================
C29_RoutingIsTotal ==
  [][ /\ lastEvent'.op \in {"options", "status", "command", "rejected", "notfound"}
         => LET m == lastEvent'.method
                u == lastEvent'.url
            IN IF m = "OPTIONS"
               THEN /\ lastEvent'.op = "options"
                    /\ lastEvent'.status = 200
                    /\ lastEvent'.text = ""
                    /\ UNCHANGED relayVars
               ELSE IF m = "GET" /\ u = "/api/status"
               THEN /\ lastEvent'.op = "status"
                    /\ lastEvent'.status = 200
               ELSE IF m = "POST" /\ u = "/api/command"
               THEN lastEvent'.op \in {"command", "rejected"}
               ELSE /\ lastEvent'.op = "notfound"
                    /\ lastEvent'.status = 404
                    /\ lastEvent'.error = "Not found"
                    /\ UNCHANGED relayVars
      /\ \A n \in Requests : reply[n] # NoReply => reply'[n] = reply[n]
    ]_vars

\* A POST to /api/status has just been answered 404 while a request holds
\* the slot.
C29_Witness ==
  /\ lastEvent.op = "notfound"
  /\ lastEvent.method = "POST"
  /\ lastEvent.url = "/api/status"
  /\ lastEvent.status = 404
  /\ pendingRequest # NoPending
\* ===================================================================
\* C30. A request whose command is none of ping, list, reload, close and
\* open touches no tab and is answered, when it is received, with one
\* failure response that carries its id and the text 'Unknown command: '
\* followed by the command.
\* ===================================================================
C30_UnknownCommandIsAnsweredWithFailure ==
  [][ \A c \in CommandSlots :
        ( /\ command[c] = NoCommand
          /\ command'[c] # NoCommand
          /\ command'[c].command \notin {"ping", "list", "reload", "close", "open"} )
        => /\ tabs' = tabs
           /\ command'[c].reloaded = <<>>
           /\ command'[c].removed = <<>>
           /\ command'[c].created = <<>>
           /\ Len(outbox') = Len(outbox) + 1
           /\ outbox'[Len(outbox')].id = command'[c].id
           /\ ~outbox'[Len(outbox')].success
           /\ outbox'[Len(outbox')].data =
                [ty |-> "string", s |-> "Unknown command",
                 c |-> command'[c].command] ]_vars
\* ===================================================================
\* C31. After every onDisconnected the reconnect timer eventually runs
\* connect(), and a WebSocket that is connecting or open exists again;
\* the keepAlive alarm calls connect() when connectionState is
\* 'disconnected'; and a WebSocket is only ever created by one of the
\* extension's own calls of connect(). (The run is followed until the
\* last WebSocket of the bound has been created.)
\* ===================================================================
AllSocketsCreated == \A s \in ExtSockets : wsReadyState[s] # NotCreated

C31_ExtensionKeepsReconnecting ==
  /\ (lastEvent.op = "onDisconnected")
       ~> (lastEvent.op = "reconnectTimer" \/ AllSocketsCreated)
  /\ (lastEvent.op = "onDisconnected")
       ~> ( \/ socket # NoSocket /\ wsReadyState[socket] \in {CONNECTING, OPEN}
            \/ AllSocketsCreated )
  /\ [][ ( /\ lastEvent'.op = "keepAlive"
           /\ connectionState = "disconnected"
           /\ ~AllSocketsCreated )
         => ( /\ socket' # NoSocket
              /\ wsReadyState[socket'] = NotCreated
              /\ wsReadyState'[socket'] = CONNECTING ) ]_vars
  /\ [][ \A s \in ExtSockets :
           (wsReadyState[s] = NotCreated /\ wsReadyState'[s] # NotCreated)
           => lastEvent'.op \in {"onInstalled", "onStartup", "reconnectTimer",
                                 "keepAlive"} ]_vars

\* Socket 1 was closed and the reconnect timer has just created socket 2.
C31_Witness ==
  /\ lastEvent.op = "reconnectTimer"
  /\ wsReadyState[1] = CLOSED
  /\ socket = 2
  /\ wsReadyState[2] = CONNECTING
  /\ connectionState = "connecting"
\* ===================================================================
\* C32. A submit that finds no stored socket, or a stored socket that is
\* not open, is rejected with 'Extension not connected' and leaves the
\* pending slot, every timer, the sockets and the reply of every other
\* request as they were; the request in the slot keeps waiting.
\* ===================================================================
C32_RefusedSubmitLeavesThePendingRequest ==
  [][ ( /\ lastEvent'.op = "command"
        /\ ~isConnected )
      => /\ reply'[lastEvent'.n] = ErrorReply("Extension not connected")
         /\ pendingRequest' = pendingRequest
         /\ timer' = timer
         /\ wire' = wire
         /\ extensionSocket' = extensionSocket
         /\ \A m \in Requests \ {lastEvent'.n} : reply'[m] = reply[m]
    ]_vars

\* Request 2 was refused as not connected while request 1 was in the slot
\* (its socket stored but no longer open), and request 1 has just been
\* resolved by its response.
C32_Witness ==
  /\ reply[2] = ErrorReply("Extension not connected")
  /\ lastEvent.op = "message"
  /\ lastEvent.frame.id = request[1].id
  /\ reply[1].status = 200
  /\ timer[1] = "cancelled"
  /\ wire[1] = <<request[1]>>
  /\ wire[2] = <<>>
  /\ readyState[1] # OPEN
\* ===================================================================
\* C33. The 'close' event of a socket that is not the stored one leaves
\* the stored socket, the pending slot and every reply as they were, and
\* isConnected() stays true if it was.
\* ===================================================================
C33_StaleCloseChangesNothing ==
  [][ ( /\ lastEvent'.op = "close"
        /\ extensionSocket # NoSocket
        /\ lastEvent'.socket # extensionSocket )
      => /\ extensionSocket' = extensionSocket
         /\ pendingRequest' = pendingRequest
         /\ reply' = reply
         /\ isConnected => isConnected'
    ]_vars

\* ===================================================================
\* C34. The timer callback of request n leaves the pending slot as it is
\* when the slot holds the entry of another request.
\* ===================================================================
C34_TimerEmptiesOnlyItsOwnEntry ==
  [][ ( /\ lastEvent'.op = "timeout"
        /\ pendingRequest # NoPending
        /\ pendingRequest.owner # lastEvent'.n )
      => pendingRequest' = pendingRequest
    ]_vars

\* ===================================================================
\* C35. Whenever the pending slot is not empty a socket is stored; a
\* request enters the slot only in a step that found the stored socket
\* open; and a step that clears the connection slot leaves the pending
\* slot empty.
\* ===================================================================
C35_PendingImpliesStoredSocket ==
  /\ [](pendingRequest # NoPending => extensionSocket # NoSocket)
  /\ [][ /\ (pendingRequest' # NoPending /\ pendingRequest' # pendingRequest)
            => (extensionSocket # NoSocket /\ readyState[extensionSocket] = OPEN)
         /\ (extensionSocket # NoSocket /\ extensionSocket' = NoSocket)
            => pendingRequest' = NoPending
       ]_vars

\* The stored socket has just closed with a request in the slot: both
\* slots are empty and the request was rejected.
C35_Witness ==
  /\ lastEvent.op = "close"
  /\ extensionSocket = NoSocket
  /\ pendingRequest = NoPending
  /\ \E n \in Requests : reply[n] = ErrorReply("Extension disconnected")
\* ===================================================================
\* C36. In every state at most one WebSocket of the extension is
\* connecting or open.
\* ===================================================================
C36_AtMostOneLiveWebSocket ==
  Cardinality({ s \in ExtSockets : wsReadyState[s] \in {CONNECTING, OPEN} }) <= 1

\* ===================================================================
\* C37. In every state connectionState is 'connected' only if socket
\* refers to an open WebSocket, and connectionState is 'disconnected'
\* whenever socket is null.
\* ===================================================================
C37_ConnectionStateAgreesWithSocket ==
  /\ connectionState = "connected"
       => (socket # NoSocket /\ wsReadyState[socket] = OPEN)
  /\ socket = NoSocket => connectionState = "disconnected"
====
